---- MODULE Spec2Model ----
(***************************************************************************)
(* Model of the Local Herro backend (src/unnamed/part_000): four in-memory *)
(* registries (presence, public messages, help alerts, direct messages),   *)
(* their lazy age-based pruning, and the ten route handlers.  Every        *)
(* handler runs to completion before the next one starts (Node's           *)
(* single-threaded event loop, no await inside a handler), so a handler is *)
(* one atomic action.  Time is milliseconds since the process started.     *)
(***************************************************************************)
EXTENDS Integers, Sequences, FiniteSets, TLC

VARIABLES
    now,             \* the value Date.now() returns
    ticks,           \* how many times the clock has advanced (bounds the model)
    presenceMap,     \* Map id -> record, as its entries in insertion order
    messages,        \* array of public messages
    helpAlerts,      \* array of help alerts
    directMessages,  \* array of direct messages
    posted,          \* history: every public message ever stored, in posting order
    resp,            \* the last event: a request with its response, or a clock advance
    before           \* history: the registries as the last event found them

vars == <<now, ticks, presenceMap, messages, helpAlerts, directMessages, posted, resp,
          before>>

Registries ==
    [presenceMap |-> presenceMap, messages |-> messages,
     helpAlerts |-> helpAlerts, directMessages |-> directMessages]

----------------------------------------------------------------------------
(* JavaScript values.  A value carries its type tag, as typeof sees it.    *)
(* Finite numbers are whole units (degrees, kilometres, milliseconds).     *)

Undefined == [t |-> "undefined"]
Null      == [t |-> "null"]
Str(s)    == [t |-> "string", s |-> s]
Num(n)    == [t |-> "number", k |-> "finite", n |-> n]
NaN       == [t |-> "number", k |-> "NaN"]
PosInf    == [t |-> "number", k |-> "Infinity"]
Bool(b)   == [t |-> "boolean", b |-> b]
Obj       == [t |-> "object"]          \* a plain object {}: truthy, no methods

IsNumber(v) == v.t = "number"
IsFinite(v) == v.t = "number" /\ v.k = "finite"
IsNaN(v)    == v.t = "number" /\ v.k = "NaN"

\* ToBoolean: the falsy values are undefined, null, "", 0, NaN and false.
Truthy(v) ==
    CASE v.t = "undefined" -> FALSE
      [] v.t = "null"      -> FALSE
      [] v.t = "string"    -> v.s # ""
      [] v.t = "number"    -> IF v.k = "finite" THEN v.n # 0 ELSE v.k # "NaN"
      [] v.t = "boolean"   -> v.b
      [] OTHER             -> TRUE

\* a || b
Or(a, b) == IF Truthy(a) THEN a ELSE b

----------------------------------------------------------------------------
(* The query handlers below bind each parsed parameter once (\E over a    *)
(* one-element set), as the handler's const declarations do.               *)
(*                                                                         *)
(* parseFloat on a query-string parameter.  A parameter is a string or is  *)
(* absent (undefined, which parseFloat reads as the text "undefined").     *)
(* The literals of the model are whole numbers, so the decimal point and   *)
(* the exponent of the grammar are not modelled.                           *)

Digits == <<"0", "1", "2", "3", "4", "5", "6", "7", "8", "9">>

IsDigit(c) == \E i \in 1..10 : Digits[i] = c

DigitVal(c) == (CHOOSE i \in 1..10 : Digits[i] = c) - 1

CharAt(s, i) == SubSeq(s, i, i)

\* the length of the longest run of digits of s that starts at position i
RECURSIVE DigitRun(_, _)
DigitRun(s, i) ==
    IF i <= Len(s) /\ IsDigit(CharAt(s, i)) THEN 1 + DigitRun(s, i + 1) ELSE 0

\* the value of the n digits of s that start at position i
RECURSIVE DigitsValue(_, _, _)
DigitsValue(s, i, n) ==
    IF n = 0 THEN 0
    ELSE 10 * DigitsValue(s, i, n - 1) + DigitVal(CharAt(s, i + n - 1))

\* does the text p occur in s at position i
StartsWith(s, i, p) ==
    i + Len(p) - 1 <= Len(s) /\ SubSeq(s, i, i + Len(p) - 1) = p

parseFloat(v) ==
    IF v.t # "string" THEN NaN
    ELSE LET s     == v.s
             neg   == Len(s) >= 1 /\ CharAt(s, 1) = "-"
             start == IF Len(s) >= 1 /\ CharAt(s, 1) \in {"-", "+"} THEN 2 ELSE 1
             run   == DigitRun(s, start)
         IN  IF StartsWith(s, start, "Infinity") /\ ~neg THEN PosInf
             ELSE IF run = 0 THEN NaN
             ELSE Num((IF neg THEN -1 ELSE 1) * DigitsValue(s, start, run))

----------------------------------------------------------------------------
(* Floating-point arithmetic of haversineKm, in fixed point: a real x is   *)
(* the integer x * FP, truncated toward zero (the squares under the square *)
(* roots are kept at x * FP * FP, so that a distance of one degree is not  *)
(* rounded to nothing).  Angles stay within [-pi/2, pi/2] for the          *)
(* coordinates of the model, and no product leaves 32 bits.                *)

FP    == 10000
PI_FP == 31416          \* Math.PI
R_KM  == 6371           \* const R = 6371

Quot(a, b) == IF a >= 0 THEN a \div b ELSE -((-a) \div b)

FMul(a, b) == Quot(a * b, FP)

\* x - x^3/3! + x^5/5! - ...   (term is the k-th term, acc the sum so far)
RECURSIVE SinSeries(_, _, _, _)
SinSeries(x2, term, k, acc) ==
    IF term = 0 THEN acc
    ELSE LET next == -Quot(FMul(term, x2), (2 * k) * (2 * k + 1))
         IN  SinSeries(x2, next, k + 1, acc + next)

Sin(x) == SinSeries(FMul(x, x), x, 1, x)

\* 1 - x^2/2! + x^4/4! - ...
RECURSIVE CosSeries(_, _, _, _)
CosSeries(x2, term, k, acc) ==
    IF term = 0 THEN acc
    ELSE LET next == -Quot(FMul(term, x2), (2 * k - 1) * (2 * k))
         IN  CosSeries(x2, next, k + 1, acc + next)

Cos(x) == CosSeries(FMul(x, x), FP, 1, FP)

\* the integer square root of n > 0 by Newton's iteration from a guess x above it
RECURSIVE ISqrt(_, _)
ISqrt(n, x) ==
    LET y == (x + n \div x) \div 2
    IN  IF y >= x THEN x ELSE ISqrt(n, y)

\* a power of two whose square is above n, the first guess of the iteration
RECURSIVE Above(_, _)
Above(n, x) == IF x * x > n THEN x ELSE Above(n, 2 * x)

\* Math.sqrt of a value at scale FP * FP, the result at scale FP
Sqrt(a2) == IF a2 = 0 THEN 0 ELSE ISqrt(a2, Above(a2, 1))

\* u - u^3/3 + u^5/5 - ...   (pow is the k-th odd power of u, signed)
RECURSIVE AtanSeries(_, _, _, _)
AtanSeries(u2, pow, k, acc) ==
    IF pow = 0 THEN acc
    ELSE LET next == -FMul(pow, u2)
         IN  AtanSeries(u2, next, k + 1, acc + Quot(next, 2 * k + 1))

\* atan(t) for 0 <= t <= 1, by atan(t) = 2 atan(t / (1 + sqrt(1 + t^2)))
Atan(t) ==
    LET u == Quot(t * FP, FP + Sqrt(FP * FP + t * t))
    IN  2 * AtanSeries(FMul(u, u), u, 1, u)

\* Math.atan2(y, x) for y >= 0 and x >= 0, not both 0
Atan2(y, x) ==
    IF x = 0 THEN PI_FP \div 2
    ELSE IF y <= x THEN Atan(Quot(y * FP, x))
    ELSE (PI_FP \div 2) - Atan(Quot(x * FP, y))

ToRad(deg) == Quot(deg * PI_FP, 180)

\* The body of haversineKm on finite coordinates in whole degrees; the result
\* is the distance in kilometres at scale FP.
HaversineFixed(lat1, lon1, lat2, lon2) ==
    LET dLat == ToRad(lat2 - lat1)
        dLon == ToRad(lon2 - lon1)
        sLat == Sin(Quot(dLat, 2))
        sLon == Sin(Quot(dLon, 2))
        cc   == FMul(Cos(ToRad(lat1)), Cos(ToRad(lat2)))
        s2   == sLon * sLon
        \* a at scale FP * FP; cc * s2 / FP is taken in two parts
        a    == sLat * sLat + cc * (s2 \div FP) + Quot(cc * (s2 % FP), FP)
        one  == FP * FP
        c    == 2 * Atan2(Sqrt(a), Sqrt(IF a > one THEN 0 ELSE one - a))
    IN  R_KM * c

\* The coordinates the requests of the model use, and HaversineFixed computed
\* once for each pair of them (the function is pure: this is a memo, not a
\* different definition).
GridLats == {19, 20}

GridLons == {72, 73}

HaversineMemo ==
    [p \in GridLats \X GridLons \X GridLats \X GridLons |->
        HaversineFixed(p[1], p[2], p[3], p[4])]

\* The distance in kilometres, as a number in fixed point (n is km * FP).
\* With a non-finite argument the differences or the products are Infinity
\* or NaN, Math.sin and Math.cos of them are NaN, and the result is NaN.
haversineKm(lat1, lon1, lat2, lon2) ==
    IF ~(IsFinite(lat1) /\ IsFinite(lon1) /\ IsFinite(lat2) /\ IsFinite(lon2))
    THEN NaN
    ELSE LET p == <<lat1.n, lon1.n, lat2.n, lon2.n>>
         IN  Num(IF p \in DOMAIN HaversineMemo THEN HaversineMemo[p]
                 ELSE HaversineFixed(p[1], p[2], p[3], p[4]))

\* distanceKm <= radiusKm, the distance in fixed point and the radius in km;
\* a comparison with NaN is false.
DistLeq(d, r) ==
    IF ~IsNumber(d) \/ ~IsNumber(r) \/ IsNaN(d) \/ IsNaN(r) THEN FALSE
    ELSE IF r = PosInf THEN TRUE
    ELSE IF d = PosInf THEN FALSE
    ELSE d.n <= r.n * FP

----------------------------------------------------------------------------
(* Bounds of the model.                                                    *)

MaxTicks == 2            \* clock advances in one behaviour

----------------------------------------------------------------------------
(* Responses.                                                              *)

Reply(op, req, status, body) ==
    [op |-> op, req |-> req, status |-> status, body |-> body]

\* res.status(400).json({ error: ... })
BadRequest(op, req) == Reply(op, req, 400, [error |-> "required"])

\* res.status(404).json({ error: 'Alert not found' })
NotFound(op, req) == Reply(op, req, 404, [error |-> "Alert not found"])

\* an exception thrown inside a handler: Express answers 500
ServerError(op, req) == Reply(op, req, 500, [error |-> "TypeError"])

----------------------------------------------------------------------------
(* Presence registry.  A Map is the sequence of its entries in insertion   *)
(* order; set() on a key already present replaces the value in place.      *)

STALE_MS == 2 * 60 * 1000

MapHas(m, k) == \E i \in 1..Len(m) : m[i].k = k

\* set() that adds an entry even when the key is present
MapSet_Append(m, k, v) == Append(m, [k |-> k, v |-> v])

MapSet(m, k, v) ==
    IF MapHas(m, k)
    THEN [i \in 1..Len(m) |-> IF m[i].k = k THEN [k |-> k, v |-> v] ELSE m[i]]
    ELSE Append(m, [k |-> k, v |-> v])

MapDelete(m, k) == SelectSeq(m, LAMBDA e : e.k # k)

MapValues(m) == [i \in 1..Len(m) |-> m[i].v]

\* for (const [id, u] of presenceMap.entries()) if (now - u.lastSeen > STALE_MS) delete
RECURSIVE PruneLoop(_, _, _)
PruneLoop(m, i, t) ==
    IF i > Len(m) THEN m
    ELSE IF t - m[i].v.lastSeen > STALE_MS
         THEN PruneLoop(MapDelete(m, m[i].k), i, t)
         ELSE PruneLoop(m, i + 1, t)

\* a sweep that evicts at the threshold instead of beyond it
prunePresence_AtThreshold(m, t) ==
    SelectSeq(m, LAMBDA e : t - e.v.lastSeen < STALE_MS)

prunePresence(m, t) == PruneLoop(m, 1, t)

PresenceRecord(body, t) ==
    [id         |-> body.id,
     name       |-> Or(body.name, Str("Guest user")),
     profession |-> Or(body.profession, Str("Citizen")),
     latitude   |-> body.latitude,
     longitude  |-> body.longitude,
     lastSeen   |-> t]

\* if (!id || typeof latitude !== 'number' || typeof longitude !== 'number')
PresenceInvalid(body) ==
    ~Truthy(body.id) \/ ~IsNumber(body.latitude) \/ ~IsNumber(body.longitude)

\* POST /presence
PostPresence(body) ==
    /\ IF PresenceInvalid(body)
       THEN /\ resp' = BadRequest("POST /presence", body)
            /\ UNCHANGED presenceMap
       ELSE /\ presenceMap' =
                  prunePresence(MapSet(presenceMap, body.id, PresenceRecord(body, now)), now)
            /\ resp' = Reply("POST /presence", body, 200, [ok |-> TRUE])
    /\ before' = Registries
    /\ UNCHANGED <<now, ticks, messages, helpAlerts, directMessages, posted>>

NearbyEntry(u, d) ==
    [id         |-> u.id,
     name       |-> u.name,
     profession |-> u.profession,
     latitude   |-> u.latitude,
     longitude  |-> u.longitude,
     distanceKm |-> d]

\* the loop over presenceMap.values() that fills result
RECURSIVE NearbyLoop(_, _, _, _, _, _)
NearbyLoop(us, i, lat, lng, radiusKm, selfId) ==
    IF i > Len(us) THEN <<>>
    ELSE LET u    == us[i]
             rest == NearbyLoop(us, i + 1, lat, lng, radiusKm, selfId)
             d    == haversineKm(lat, lng, u.latitude, u.longitude)
         IN  IF Truthy(selfId) /\ u.id = selfId THEN rest
             ELSE IF DistLeq(d, radiusKm) THEN <<NearbyEntry(u, d)>> \o rest
             ELSE rest

\* GET /nearby-users
GetNearbyUsers(query) ==
    \E lat \in {parseFloat(query.lat)}, lng \in {parseFloat(query.lng)},
       radiusKm \in {parseFloat(Or(query.radiusKm, Str("5")))},
       selfId \in {Or(query.selfId, Null)} :
        /\ IF IsNaN(lat) \/ IsNaN(lng)
           THEN /\ resp' = BadRequest("GET /nearby-users", query)
                /\ UNCHANGED presenceMap
           ELSE LET pruned == prunePresence(presenceMap, now)
                    result == NearbyLoop(MapValues(pruned), 1, lat, lng, radiusKm, selfId)
                IN  /\ presenceMap' = pruned
                    /\ resp' = Reply("GET /nearby-users", query, 200, result)
        /\ before' = Registries
        /\ UNCHANGED <<now, ticks, messages, helpAlerts, directMessages, posted>>

----------------------------------------------------------------------------
(* Text and generated identifiers.                                         *)

\* a slice that keeps the last n characters
Slice_Tail(v, n) ==
    Str(SubSeq(v.s, IF Len(v.s) < n THEN 1 ELSE Len(v.s) - n + 1, Len(v.s)))

\* text.slice(0, n) on a string
Slice(v, n) == Str(SubSeq(v.s, 1, IF Len(v.s) < n THEN Len(v.s) ELSE n))

\* only a string has the slice method among the values of the model; calling
\* it on a number, a boolean or a plain object throws a TypeError
HasSlice(v) == v.t = "string"

Base36Digits == "0123456789abcdefghijklmnopqrstuvwxyz"

\* Number.prototype.toString(36) on a non-negative integer
RECURSIVE Base36(_)
Base36(n) ==
    IF n < 36 THEN CharAt(Base36Digits, n + 1)
    ELSE Base36(n \div 36) \o CharAt(Base36Digits, (n % 36) + 1)

\* an identifier made of the random draw alone
GenId_DrawOnly(t, r) == Str(Base36(r))

\* Date.now().toString() + '-' + Math.floor(Math.random() * 1e6).toString(36),
\* r being the integer the random draw gives
GenId(t, r) == Str(ToString(t) \o "-" \o Base36(r))

----------------------------------------------------------------------------
(* Public message log.                                                     *)

MAX_MESSAGES   == 200
MESSAGE_TTL_MS == 30 * 60 * 1000
TEXT_MAX       == 500

\* a sweep that takes at most one entry from the front
ShiftWhileOlder_OnlyOne(a, cutoff) ==
    IF Len(a) > 0 /\ a[1].timestamp < cutoff THEN Tail(a) ELSE a

\* while (a.length && a[0].timestamp < cutoff) a.shift()
RECURSIVE ShiftWhileOlder(_, _)
ShiftWhileOlder(a, cutoff) ==
    IF Len(a) > 0 /\ a[1].timestamp < cutoff THEN ShiftWhileOlder(Tail(a), cutoff)
    ELSE a

pruneMessages(a, t) == ShiftWhileOlder(a, t - MESSAGE_TTL_MS)

\* if (messages.length > MAX_MESSAGES) messages.splice(0, messages.length - MAX_MESSAGES)
\* a cap that keeps the first MAX_MESSAGES entries, as splice(MAX_MESSAGES) would
CapMessages_KeepOldest(a) ==
    IF Len(a) > MAX_MESSAGES THEN SubSeq(a, 1, MAX_MESSAGES) ELSE a

CapMessages(a) ==
    IF Len(a) > MAX_MESSAGES THEN SubSeq(a, Len(a) - MAX_MESSAGES + 1, Len(a)) ELSE a

PublicMessage(body, t, r) ==
    [id         |-> GenId(t, r),
     fromId     |-> body.fromId,
     fromName   |-> Or(body.fromName, Str("Guest user")),
     profession |-> Or(body.profession, Str("Citizen")),
     latitude   |-> body.latitude,
     longitude  |-> body.longitude,
     text       |-> Slice(body.text, TEXT_MAX),
     timestamp  |-> t]

\* if (!fromId || typeof latitude !== 'number' || typeof longitude !== 'number' || !text)
MessageInvalid(body) ==
    \/ ~Truthy(body.fromId)
    \/ ~IsNumber(body.latitude)
    \/ ~IsNumber(body.longitude)
    \/ ~Truthy(body.text)

\* POST /messages, r the random draw of the identifier
PostMessages(body, r) ==
    /\ IF MessageInvalid(body)
       THEN /\ resp' = BadRequest("POST /messages", body)
            /\ UNCHANGED <<messages, posted>>
       ELSE IF ~HasSlice(body.text)
       THEN /\ resp' = ServerError("POST /messages", body)
            /\ UNCHANGED <<messages, posted>>
       ELSE LET msg == PublicMessage(body, now, r)
            IN  /\ messages' = CapMessages(pruneMessages(Append(messages, msg), now))
                /\ posted' = Append(posted, msg)
                /\ resp' = Reply("POST /messages", body, 200, [ok |-> TRUE, message |-> msg])
    /\ before' = Registries
    /\ UNCHANGED <<now, ticks, presenceMap, helpAlerts, directMessages>>

\* a sorted by timestamp with x put after the last element that does not come
\* after it: dir = 1 for the comparator (a, b) => a.timestamp - b.timestamp,
\* dir = -1 for (a, b) => b.timestamp - a.timestamp
RECURSIVE InsertSorted(_, _, _)
InsertSorted(a, x, dir) ==
    IF Len(a) = 0 THEN <<x>>
    ELSE IF dir * a[Len(a)].timestamp <= dir * x.timestamp THEN Append(a, x)
    ELSE Append(InsertSorted(SubSeq(a, 1, Len(a) - 1), x, dir), a[Len(a)])

\* a sort that puts the oldest first whichever comparator it is given
RECURSIVE SortByTimestamp_OldestFirst(_, _)
SortByTimestamp_OldestFirst(a, dir) ==
    IF Len(a) = 0 THEN <<>>
    ELSE InsertSorted(SortByTimestamp_OldestFirst(SubSeq(a, 1, Len(a) - 1), dir),
                      a[Len(a)], 1)

\* Array.prototype.sort with one of the two comparators; the sort is stable
RECURSIVE SortByTimestamp(_, _)
SortByTimestamp(a, dir) ==
    IF Len(a) = 0 THEN <<>>
    ELSE InsertSorted(SortByTimestamp(SubSeq(a, 1, Len(a) - 1), dir), a[Len(a)], dir)

\* a filter that lets every entry through, however far away
WithinRadius_Anywhere(lat, lng, radiusKm, x) == TRUE

WithinRadius(lat, lng, radiusKm, x) ==
    DistLeq(haversineKm(lat, lng, x.latitude, x.longitude), radiusKm)

\* GET /messages
GetMessages(query) ==
    \E lat \in {parseFloat(query.lat)}, lng \in {parseFloat(query.lng)},
       radiusKm \in {parseFloat(Or(query.radiusKm, Str("5")))} :
        /\ IF IsNaN(lat) \/ IsNaN(lng)
           THEN /\ resp' = BadRequest("GET /messages", query)
                /\ UNCHANGED messages
           ELSE LET pruned == pruneMessages(messages, now)
                    nearby == SortByTimestamp(
                                  SelectSeq(pruned,
                                      LAMBDA m : WithinRadius(lat, lng, radiusKm, m)),
                                  1)
                IN  /\ messages' = pruned
                    /\ resp' = Reply("GET /messages", query, 200, nearby)
        /\ before' = Registries
        /\ UNCHANGED <<now, ticks, presenceMap, helpAlerts, directMessages, posted>>

----------------------------------------------------------------------------
(* Help alerts.                                                            *)

HELP_ALERT_TTL_MS == 60 * 60 * 1000

\* a sweep that also takes an alert aged exactly HELP_ALERT_TTL_MS
pruneHelpAlerts_AtThreshold(a, t) == ShiftWhileOlder(a, t - HELP_ALERT_TTL_MS + 1)

\* a sweep that lets an accepted alert live on
pruneHelpAlerts_KeepAccepted(a, t) ==
    IF Len(a) > 0 /\ a[1].acceptedById = Null
    THEN ShiftWhileOlder(a, t - HELP_ALERT_TTL_MS)
    ELSE a

pruneHelpAlerts(a, t) == ShiftWhileOlder(a, t - HELP_ALERT_TTL_MS)

\* an alert that is born with an acceptance time
NewAlert_Stamped(body, t, r) ==
    [id              |-> GenId(t, r),
     type            |-> Or(body.type, Str("HELP")),
     message         |-> Slice(body.message, TEXT_MAX),
     latitude        |-> body.latitude,
     longitude       |-> body.longitude,
     requestedById   |-> body.fromId,
     requestedByName |-> Or(body.fromName, Str("Guest user")),
     requestedPhone  |-> Or(body.phone, Null),
     timestamp       |-> t,
     acceptedById    |-> Null,
     acceptedByName  |-> Null,
     acceptedPhone   |-> Null,
     acceptedAt      |-> Num(t)]

NewAlert(body, t, r) ==
    [id              |-> GenId(t, r),
     type            |-> Or(body.type, Str("HELP")),
     message         |-> Slice(body.message, TEXT_MAX),
     latitude        |-> body.latitude,
     longitude       |-> body.longitude,
     requestedById   |-> body.fromId,
     requestedByName |-> Or(body.fromName, Str("Guest user")),
     requestedPhone  |-> Or(body.phone, Null),
     timestamp       |-> t,
     acceptedById    |-> Null,
     acceptedByName  |-> Null,
     acceptedPhone   |-> Null,
     acceptedAt      |-> Null]

\* if (!fromId || !message || typeof latitude !== 'number' || typeof longitude !== 'number')
AlertInvalid(body) ==
    \/ ~Truthy(body.fromId)
    \/ ~Truthy(body.message)
    \/ ~IsNumber(body.latitude)
    \/ ~IsNumber(body.longitude)

\* POST /help-alerts, r the random draw of the identifier
PostHelpAlerts(body, r) ==
    /\ IF AlertInvalid(body)
       THEN /\ resp' = BadRequest("POST /help-alerts", body)
            /\ UNCHANGED helpAlerts
       ELSE IF ~HasSlice(body.message)
       THEN /\ resp' = ServerError("POST /help-alerts", body)
            /\ UNCHANGED helpAlerts
       ELSE LET alert == NewAlert(body, now, r)
            IN  /\ helpAlerts' = pruneHelpAlerts(Append(helpAlerts, alert), now)
                /\ resp' = Reply("POST /help-alerts", body, 200,
                                 [ok |-> TRUE, alert |-> alert])
    /\ before' = Registries
    /\ UNCHANGED <<now, ticks, presenceMap, messages, directMessages, posted>>

\* GET /help-alerts
GetHelpAlerts(query) ==
    \E lat \in {parseFloat(query.lat)}, lng \in {parseFloat(query.lng)},
       radiusKm \in {parseFloat(Or(query.radiusKm, Str("5")))},
       excludeId \in {Or(query.excludeId, Null)} :
        /\ IF IsNaN(lat) \/ IsNaN(lng)
           THEN /\ resp' = BadRequest("GET /help-alerts", query)
                /\ UNCHANGED helpAlerts
           ELSE LET pruned == pruneHelpAlerts(helpAlerts, now)
                    result == SortByTimestamp(
                                  SelectSeq(pruned,
                                      LAMBDA a :
                                          /\ ~(Truthy(excludeId) /\ a.requestedById = excludeId)
                                          /\ WithinRadius(lat, lng, radiusKm, a)),
                                  -1)
                IN  /\ helpAlerts' = pruned
                    /\ resp' = Reply("GET /help-alerts", query, 200, result)
        /\ before' = Registries
        /\ UNCHANGED <<now, ticks, presenceMap, messages, directMessages, posted>>

\* helpAlerts.find((a) => a.id === id): the index of the first match, or 0
FindAlert(a, id) ==
    IF \E i \in 1..Len(a) : a[i].id = id
    THEN CHOOSE i \in 1..Len(a) : a[i].id = id /\ \A j \in 1..(i - 1) : a[j].id # id
    ELSE 0

\* a lookup that sweeps the direct messages along with the alerts
GetHelpAlert_SweepsDirect(id) ==
    LET pruned == pruneHelpAlerts(helpAlerts, now)
        i      == FindAlert(pruned, id)
    IN  /\ helpAlerts' = pruned
        /\ directMessages' = ShiftWhileOlder(directMessages, now - HELP_ALERT_TTL_MS)
        /\ resp' = IF i = 0 THEN NotFound("GET /help-alerts/:id", [id |-> id])
                   ELSE Reply("GET /help-alerts/:id", [id |-> id], 200, pruned[i])
        /\ before' = Registries
        /\ UNCHANGED <<now, ticks, presenceMap, messages, posted>>

\* GET /help-alerts/:id
GetHelpAlert(id) ==
    LET pruned == pruneHelpAlerts(helpAlerts, now)
        i      == FindAlert(pruned, id)
    IN  /\ helpAlerts' = pruned
        /\ resp' = IF i = 0 THEN NotFound("GET /help-alerts/:id", [id |-> id])
                   ELSE Reply("GET /help-alerts/:id", [id |-> id], 200, pruned[i])
        /\ before' = Registries
        /\ UNCHANGED <<now, ticks, presenceMap, messages, directMessages, posted>>

\* an acceptance that also restarts the age of the alert
Accepted_Renewed(alert, body, t) ==
    [alert EXCEPT !.acceptedById   = body.helperId,
                  !.acceptedByName = Or(body.helperName, Str("Helper")),
                  !.acceptedPhone  = Or(body.helperPhone, Null),
                  !.acceptedAt     = Num(t),
                  !.timestamp      = t]

\* an acceptance that leaves an alert with the helper who accepted it first
Accepted_FirstWins(alert, body, t) ==
    IF alert.acceptedById # Null THEN alert
    ELSE [alert EXCEPT !.acceptedById   = body.helperId,
                       !.acceptedByName = Or(body.helperName, Str("Helper")),
                       !.acceptedPhone  = Or(body.helperPhone, Null),
                       !.acceptedAt     = Num(t)]

\* the four assignments to the alert found
Accepted(alert, body, t) ==
    [alert EXCEPT !.acceptedById   = body.helperId,
                  !.acceptedByName = Or(body.helperName, Str("Helper")),
                  !.acceptedPhone  = Or(body.helperPhone, Null),
                  !.acceptedAt     = Num(t)]

\* POST /help-alerts/:id/accept
PostAccept(id, body) ==
    LET req    == [id |-> id, body |-> body]
        pruned == pruneHelpAlerts(helpAlerts, now)
        i      == FindAlert(pruned, id)
    IN  /\ IF ~Truthy(body.helperId)
           THEN /\ resp' = BadRequest("POST /help-alerts/:id/accept", req)
                /\ UNCHANGED helpAlerts
           ELSE IF i = 0
           THEN /\ resp' = NotFound("POST /help-alerts/:id/accept", req)
                /\ helpAlerts' = pruned
           ELSE LET alert == Accepted(pruned[i], body, now)
                IN  /\ helpAlerts' = [pruned EXCEPT ![i] = alert]
                    /\ resp' = Reply("POST /help-alerts/:id/accept", req, 200,
                                     [ok |-> TRUE, alert |-> alert])
        /\ before' = Registries
        /\ UNCHANGED <<now, ticks, presenceMap, messages, directMessages, posted>>

----------------------------------------------------------------------------
(* Direct messages of an alert.                                            *)

DIRECT_MSG_TTL_MS == 60 * 60 * 1000

pruneDirectMessages(a, t) == ShiftWhileOlder(a, t - DIRECT_MSG_TTL_MS)

\* a listing that returns the messages of every alert
GetDirectMessages_OfAnyAlert(alertId) ==
    /\ LET pruned == pruneDirectMessages(directMessages, now)
           msgs   == SortByTimestamp(pruned, 1)
       IN  /\ directMessages' = pruned
           /\ resp' = Reply("GET /help-alerts/:id/messages", [id |-> alertId], 200, msgs)
    /\ before' = Registries
    /\ UNCHANGED <<now, ticks, presenceMap, messages, helpAlerts, posted>>

\* GET /help-alerts/:id/messages
GetDirectMessages(alertId) ==
    /\ LET pruned == pruneDirectMessages(directMessages, now)
           msgs   == SortByTimestamp(SelectSeq(pruned, LAMBDA m : m.alertId = alertId), 1)
       IN  /\ directMessages' = pruned
           /\ resp' = Reply("GET /help-alerts/:id/messages", [id |-> alertId], 200, msgs)
    /\ before' = Registries
    /\ UNCHANGED <<now, ticks, presenceMap, messages, helpAlerts, posted>>

DirectMessage(alertId, body, t, r) ==
    [id        |-> GenId(t, r),
     alertId   |-> alertId,
     fromId    |-> body.fromId,
     fromName  |-> Or(body.fromName, Str("User")),
     text      |-> Slice(body.text, TEXT_MAX),
     timestamp |-> t]

\* a posting that is refused when the registry holds no alert of that identifier
PostDirectMessages_NeedsAlert(alertId, body, r) ==
    LET req == [id |-> alertId, body |-> body]
    IN  /\ IF ~Truthy(body.fromId) \/ ~Truthy(body.text)
           THEN /\ resp' = BadRequest("POST /help-alerts/:id/messages", req)
                /\ UNCHANGED directMessages
           ELSE IF FindAlert(pruneHelpAlerts(helpAlerts, now), alertId) = 0
           THEN /\ resp' = NotFound("POST /help-alerts/:id/messages", req)
                /\ UNCHANGED directMessages
           ELSE IF ~HasSlice(body.text)
           THEN /\ resp' = ServerError("POST /help-alerts/:id/messages", req)
                /\ directMessages' = pruneDirectMessages(directMessages, now)
           ELSE LET msg == DirectMessage(alertId, body, now, r)
                IN  /\ directMessages' =
                           Append(pruneDirectMessages(directMessages, now), msg)
                    /\ resp' = Reply("POST /help-alerts/:id/messages", req, 200,
                                     [ok |-> TRUE, message |-> msg])
        /\ before' = Registries
        /\ UNCHANGED <<now, ticks, presenceMap, messages, helpAlerts, posted>>

\* POST /help-alerts/:id/messages, r the random draw of the identifier; the
\* sweep comes before the message is built, so it is done when slice throws
PostDirectMessages(alertId, body, r) ==
    LET req == [id |-> alertId, body |-> body]
    IN  /\ IF ~Truthy(body.fromId) \/ ~Truthy(body.text)
           THEN /\ resp' = BadRequest("POST /help-alerts/:id/messages", req)
                /\ UNCHANGED directMessages
           ELSE IF ~HasSlice(body.text)
           THEN /\ resp' = ServerError("POST /help-alerts/:id/messages", req)
                /\ directMessages' = pruneDirectMessages(directMessages, now)
           ELSE LET msg == DirectMessage(alertId, body, now, r)
                IN  /\ directMessages' =
                           Append(pruneDirectMessages(directMessages, now), msg)
                    /\ resp' = Reply("POST /help-alerts/:id/messages", req, 200,
                                     [ok |-> TRUE, message |-> msg])
        /\ before' = Registries
        /\ UNCHANGED <<now, ticks, presenceMap, messages, helpAlerts, posted>>

----------------------------------------------------------------------------
(* The clock.                                                              *)

\* a clock whose advance sweeps all four registries, as a background sweeper would
Advance_Sweeps(d) ==
    /\ ticks < MaxTicks
    /\ now' = now + d
    /\ ticks' = ticks + 1
    /\ presenceMap' = prunePresence(presenceMap, now + d)
    /\ messages' = pruneMessages(messages, now + d)
    /\ helpAlerts' = pruneHelpAlerts(helpAlerts, now + d)
    /\ directMessages' = pruneDirectMessages(directMessages, now + d)
    /\ resp' = Reply("tick", d, 0, <<>>)
    /\ before' = Registries
    /\ UNCHANGED posted

Advance(d) ==
    /\ ticks < MaxTicks
    /\ now' = now + d
    /\ ticks' = ticks + 1
    /\ resp' = Reply("tick", d, 0, <<>>)
    /\ before' = Registries
    /\ UNCHANGED <<presenceMap, messages, helpAlerts, directMessages, posted>>

Init ==
    /\ now = 0
    /\ ticks = 0
    /\ presenceMap = <<>>
    /\ messages = <<>>
    /\ helpAlerts = <<>>
    /\ directMessages = <<>>
    /\ posted = <<>>
    /\ resp = Reply("start", <<>>, 0, <<>>)
    /\ before = Registries

----------------------------------------------------------------------------
(* The presence registry on its own.                                       *)

PresenceBody(id, name, profession, latitude, longitude) ==
    [id |-> id, name |-> name, profession |-> profession,
     latitude |-> latitude, longitude |-> longitude]

ReportBodies ==
    { PresenceBody(Str("d1"), Str("Asha"), Str("Doctor"), Num(19), Num(72)),
      PresenceBody(Str("d1"), Undefined, Undefined, Num(20), Num(72)),
      PresenceBody(Str("d2"), Undefined, Undefined, Num(19), Num(72)),
      PresenceBody(Str("d2"), Str("Ravi"), Undefined, PosInf, Num(72)),
      PresenceBody(Undefined, Undefined, Undefined, Num(19), Num(72)),
      PresenceBody(Str(""), Str("Asha"), Undefined, Num(19), Num(72)),
      PresenceBody(Str("d1"), Undefined, Undefined, Str("19"), Num(72)),
      PresenceBody(Str("d2"), Undefined, Undefined, Num(19), Undefined) }

NearbyQuery(lat, lng, radiusKm, selfId) ==
    [lat |-> lat, lng |-> lng, radiusKm |-> radiusKm, selfId |-> selfId]

NearbyQueries ==
    { NearbyQuery(Str("19"), Str("72"), Undefined, Undefined),
      NearbyQuery(Str("19"), Str("72"), Str("0"), Str("d1")),
      NearbyQuery(Str("20"), Str("72"), Str("200"), Str("d2")),
      NearbyQuery(Str("Infinity"), Str("72"), Str("0"), Undefined),
      NearbyQuery(Str("19"), Str("72"), Str("-1"), Undefined),
      NearbyQuery(Str("abc"), Str("72"), Undefined, Undefined),
      NearbyQuery(Str("19"), Undefined, Undefined, Undefined) }

PresenceSteps == {1, STALE_MS}

Report == \E body \in ReportBodies : PostPresence(body)

QueryNearby == \E query \in NearbyQueries : GetNearbyUsers(query)

TickPresence == \E d \in PresenceSteps : Advance(d)

NextPresence == Report \/ QueryNearby \/ TickPresence

SpecPresence == Init /\ [][NextPresence]_vars

----------------------------------------------------------------------------
(* The public message log on its own, far enough to overflow MAX_MESSAGES. *)

MaxPosts == 201           \* messages posted in one behaviour of SpecLog

MessageBody(fromId, fromName, profession, latitude, longitude, text) ==
    [fromId |-> fromId, fromName |-> fromName, profession |-> profession,
     latitude |-> latitude, longitude |-> longitude, text |-> text]

LogBodies ==
    { MessageBody(Str("d1"), Undefined, Undefined, Num(19), Num(72), Str("hi")),
      MessageBody(Str("d1"), Undefined, Undefined, Num(19), Num(72), Undefined) }

\* the clock of SpecLog stops here: one advance, to the age limit or just past it
LogHorizon == MESSAGE_TTL_MS + 1

LogSteps == {MESSAGE_TTL_MS, MESSAGE_TTL_MS + 1}

PostLog ==
    /\ Len(posted) < MaxPosts
    /\ \E body \in LogBodies : PostMessages(body, 7)

TickLog == \E d \in LogSteps : now + d <= LogHorizon /\ Advance(d)

NextLog == PostLog \/ TickLog

SpecLog == Init /\ [][NextLog]_vars

----------------------------------------------------------------------------
(* The help alerts on their own.                                           *)

MaxAlerts == 2           \* alerts held at once in SpecHelp

AlertBody(fromId, fromName, phone, type, message, latitude, longitude) ==
    [fromId |-> fromId, fromName |-> fromName, phone |-> phone, type |-> type,
     message |-> message, latitude |-> latitude, longitude |-> longitude]

AlertBodies ==
    { AlertBody(Str("d1"), Undefined, Undefined, Undefined, Str("need water"),
                Num(19), Num(72)),
      AlertBody(Str("d2"), Str("Ravi"), Str("555"), Str("FIRE"), Str("fire"),
                Num(20), Num(72)) }

AcceptBody(helperId, helperName, helperPhone) ==
    [helperId |-> helperId, helperName |-> helperName, helperPhone |-> helperPhone]

AcceptBodies ==
    { AcceptBody(Str("d2"), Undefined, Undefined),
      AcceptBody(Str("d3"), Str("Meera"), Str("777")) }

AlertQuery(lat, lng, radiusKm, excludeId) ==
    [lat |-> lat, lng |-> lng, radiusKm |-> radiusKm, excludeId |-> excludeId]

AlertQueries ==
    { AlertQuery(Str("19"), Str("72"), Undefined, Undefined),
      AlertQuery(Str("19"), Str("72"), Str("200"), Str("d1")) }

\* the identifiers a client can put in a path: those of the alerts held, and one
\* that no alert has
UnknownId == Str("0-zz")

PathIds == {helpAlerts[i].id : i \in 1..Len(helpAlerts)} \cup {UnknownId}

AlertDraws == {7}

HelpSteps == {1, HELP_ALERT_TTL_MS}

\* the clock of SpecHelp stops here: just past the age limit of the first alert
HelpHorizon == HELP_ALERT_TTL_MS + 1

Create ==
    /\ Len(helpAlerts) < MaxAlerts
    /\ \E body \in AlertBodies, r \in AlertDraws : PostHelpAlerts(body, r)

QueryAlerts == \E query \in AlertQueries : GetHelpAlerts(query)

GetById == \E id \in PathIds : GetHelpAlert(id)

Accept == \E id \in PathIds, body \in AcceptBodies : PostAccept(id, body)

TickHelp == \E d \in HelpSteps : now + d <= HelpHorizon /\ Advance(d)

NextHelp == Create \/ QueryAlerts \/ GetById \/ Accept \/ TickHelp

SpecHelp == Init /\ [][NextHelp]_vars

----------------------------------------------------------------------------
(* The whole service: every route, a few entries at a time.                *)

MaxStored == 2           \* entries held at once, all registries together

Stored == Len(presenceMap) + Len(messages) + Len(helpAlerts) + Len(directMessages)

MessageQuery(lat, lng, radiusKm) == [lat |-> lat, lng |-> lng, radiusKm |-> radiusKm]

DirectBody(fromId, fromName, text) ==
    [fromId |-> fromId, fromName |-> fromName, text |-> text]

\* one body or query that passes validation and one that does not, per route;
\* for the three routes that slice a text, also a text that is not a string
PresenceInputs ==
    { PresenceBody(Str("d1"), Str("Asha"), Str("Doctor"), Num(19), Num(72)),
      PresenceBody(Undefined, Str("Asha"), Str("Doctor"), Num(19), Num(72)) }

NearbyInputs ==
    { NearbyQuery(Str("19"), Str("72"), Undefined, Undefined),
      NearbyQuery(Str("abc"), Str("72"), Undefined, Undefined) }

MessageInputs ==
    { MessageBody(Str("d1"), Undefined, Undefined, Num(19), Num(72), Str("hi")),
      MessageBody(Str("d1"), Undefined, Undefined, Num(19), Num(72), Undefined),
      MessageBody(Str("d1"), Undefined, Undefined, Num(19), Num(72), Num(5)) }

MessageQueries ==
    { MessageQuery(Str("19"), Str("72"), Undefined),
      MessageQuery(Str("19"), Undefined, Undefined) }

AlertInputs ==
    { AlertBody(Str("d1"), Undefined, Undefined, Undefined, Str("need water"),
                Num(19), Num(72)),
      AlertBody(Str("d1"), Undefined, Undefined, Undefined, Undefined,
                Num(19), Num(72)),
      AlertBody(Str("d1"), Undefined, Undefined, Undefined, Num(5),
                Num(19), Num(72)) }

AlertQueryInputs ==
    { AlertQuery(Str("19"), Str("72"), Undefined, Undefined),
      AlertQuery(Undefined, Str("72"), Undefined, Undefined) }

AcceptInputs ==
    { AcceptBody(Str("d2"), Str("Ravi"), Undefined),
      AcceptBody(Undefined, Str("Ravi"), Undefined) }

DirectInputs ==
    { DirectBody(Str("d2"), Undefined, Str("on my way")),
      DirectBody(Str("d2"), Undefined, Undefined),
      DirectBody(Str("d2"), Undefined, Obj) }

Steps == {1, HELP_ALERT_TTL_MS}

\* the clock of Spec stops here: just past the longest age limit
Horizon == HELP_ALERT_TTL_MS + 1

Presence == Stored < MaxStored /\ \E body \in PresenceInputs : PostPresence(body)

NearbyUsers == \E query \in NearbyInputs : GetNearbyUsers(query)

PostMessage == Stored < MaxStored /\ \E body \in MessageInputs : PostMessages(body, 7)

Messages == \E query \in MessageQueries : GetMessages(query)

PostHelpAlert == Stored < MaxStored /\ \E body \in AlertInputs : PostHelpAlerts(body, 7)

HelpAlerts == \E query \in AlertQueryInputs : GetHelpAlerts(query)

\* the identifiers a client of the whole service can put in a path: those of
\* PathIds and those of the alerts that the direct messages held were posted to
KnownIds == PathIds \cup {directMessages[i].alertId : i \in 1..Len(directMessages)}

HelpAlert == \E id \in KnownIds : GetHelpAlert(id)

AcceptAlert == \E id \in KnownIds, body \in AcceptInputs : PostAccept(id, body)

DirectMessagesOf == \E id \in KnownIds : GetDirectMessages(id)

PostDirectMessage ==
    /\ Stored < MaxStored
    /\ \E id \in KnownIds, body \in DirectInputs : PostDirectMessages(id, body, 7)

Tick == \E d \in Steps : now + d <= Horizon /\ Advance(d)

Next ==
    \/ Presence
    \/ NearbyUsers
    \/ PostMessage
    \/ Messages
    \/ PostHelpAlert
    \/ HelpAlerts
    \/ HelpAlert
    \/ AcceptAlert
    \/ DirectMessagesOf
    \/ PostDirectMessage
    \/ Tick

Spec == Init /\ [][Next]_vars

----------------------------------------------------------------------------
(* The three routes that store a text, with texts around TEXT_MAX.         *)

RECURSIVE Repeat(_, _)
Repeat(s, n) == IF n = 0 THEN "" ELSE s \o Repeat(s, n - 1)

\* a text of n characters whose characters change with the position
Text(n) == SubSeq(Repeat(Digits, n \div Len(Digits) + 1), 1, n)

TextLengths == {1, TEXT_MAX - 1, TEXT_MAX, TEXT_MAX + 1, 2 * TEXT_MAX}

Texts == {Str(Text(n)) : n \in TextLengths}

PostLongMessage ==
    /\ Stored < MaxStored
    /\ \E text \in Texts :
           PostMessages(MessageBody(Str("d1"), Undefined, Undefined,
                                    Num(19), Num(72), text), 7)

PostLongAlert ==
    /\ Stored < MaxStored
    /\ \E text \in Texts :
           PostHelpAlerts(AlertBody(Str("d1"), Undefined, Undefined, Undefined,
                                    text, Num(19), Num(72)), 7)

PostLongDirect ==
    /\ Stored < MaxStored
    /\ \E text \in Texts :
           PostDirectMessages(UnknownId, DirectBody(Str("d2"), Undefined, text), 7)

NextText == PostLongMessage \/ PostLongAlert \/ PostLongDirect

SpecText == Init /\ [][NextText]_vars

----------------------------------------------------------------------------
(* The three routes that generate an identifier, with more than one draw.  *)

Draws == {7, 36}

IdStep == 1

PostIdMessage ==
    /\ Stored < MaxStored
    /\ \E r \in Draws :
           PostMessages(MessageBody(Str("d1"), Undefined, Undefined,
                                    Num(19), Num(72), Str("hi")), r)

PostIdAlert ==
    /\ Stored < MaxStored
    /\ \E r \in Draws :
           PostHelpAlerts(AlertBody(Str("d1"), Undefined, Undefined, Undefined,
                                    Str("need water"), Num(19), Num(72)), r)

PostIdDirect ==
    /\ Stored < MaxStored
    /\ \E r \in Draws :
           PostDirectMessages(UnknownId, DirectBody(Str("d2"), Undefined, Str("on my way")), r)

GetIdAlert == \E id \in PathIds : GetHelpAlert(id)

AcceptIdAlert ==
    \E id \in PathIds : PostAccept(id, AcceptBody(Str("d2"), Str("Ravi"), Undefined))

TickIds == Advance(IdStep)

NextIds ==
    \/ PostIdMessage
    \/ PostIdAlert
    \/ PostIdDirect
    \/ GetIdAlert
    \/ AcceptIdAlert
    \/ TickIds

SpecIds == Init /\ [][NextIds]_vars

----------------------------------------------------------------------------
(* Properties of the presence registry.                                    *)

PresenceOps == {"POST /presence", "GET /nearby-users"}

Ok(op) == resp.op = op /\ resp.status = 200

Stale(u) == now - u.lastSeen > STALE_MS

NoStalePresence == \A i \in 1..Len(presenceMap) : ~Stale(presenceMap[i].v)

\* every entry of a nearby-users result is a record of the registry that is not stale
ResultIsFresh ==
    \A j \in 1..Len(resp.body) :
        \E i \in 1..Len(presenceMap) :
            /\ presenceMap[i].v.id = resp.body[j].id
            /\ ~Stale(presenceMap[i].v)

\* every record the request found that is not stale, one aged exactly STALE_MS
\* included, is still in the registry
FreshKept ==
    \A i \in 1..Len(before.presenceMap) :
        ~Stale(before.presenceMap[i].v) => MapHas(presenceMap, before.presenceMap[i].k)

\* C1, as stated: whichever Report or QueryNearby request runs next, valid or
\* not, no record older than STALE_MS is left in the registry or returned.
C1_AnyRequestSweeps ==
    resp.op \in PresenceOps =>
        /\ NoStalePresence
        /\ FreshKept
        /\ Ok("GET /nearby-users") => ResultIsFresh

\* C1, amended: after a Report or QueryNearby that passes validation the
\* registry holds no record whose last-seen time is more than STALE_MS before
\* the current time, a QueryNearby result holds none either, and every record
\* aged STALE_MS or less (exactly STALE_MS included) is kept.
C1_ValidRequestSweeps ==
    (resp.op \in PresenceOps /\ resp.status = 200) =>
        /\ NoStalePresence
        /\ FreshKept
        /\ Ok("GET /nearby-users") => ResultIsFresh

\* a query swept a record older than STALE_MS and kept one aged exactly STALE_MS
C1_Witness ==
    /\ Ok("GET /nearby-users")
    /\ \E i \in 1..Len(before.presenceMap) :
           /\ Stale(before.presenceMap[i].v)
           /\ ~MapHas(presenceMap, before.presenceMap[i].k)
    /\ \E i \in 1..Len(presenceMap) : now - presenceMap[i].v.lastSeen = STALE_MS

\* C7: every presence record has a non-empty identity and finite latitude and
\* longitude, and a Report without them is answered 400 and stores nothing.
C7_OnlyFiniteCoordinatesStored ==
    /\ \A i \in 1..Len(presenceMap) :
           /\ Truthy(presenceMap[i].v.id)
           /\ IsFinite(presenceMap[i].v.latitude)
           /\ IsFinite(presenceMap[i].v.longitude)
    /\ (/\ resp.op = "POST /presence"
        /\ \/ ~Truthy(resp.req.id)
           \/ ~IsFinite(resp.req.latitude)
           \/ ~IsFinite(resp.req.longitude))
       => (resp.status = 400 /\ presenceMap = before.presenceMap)

\* C9: the registry holds at most one record per identity, a successful Report
\* leaves exactly the reported values under its identity, and a QueryNearby
\* result never holds two entries with the same id.
C9_OneRecordPerIdentity ==
    /\ \A i, j \in 1..Len(presenceMap) :
           presenceMap[i].v.id = presenceMap[j].v.id => i = j
    /\ Ok("POST /presence") =>
           /\ MapHas(presenceMap, resp.req.id)
           /\ \A i \in 1..Len(presenceMap) :
                  presenceMap[i].v.id = resp.req.id =>
                      /\ presenceMap[i].v.name =
                             (IF Truthy(resp.req.name) THEN resp.req.name
                              ELSE Str("Guest user"))
                      /\ presenceMap[i].v.profession =
                             (IF Truthy(resp.req.profession) THEN resp.req.profession
                              ELSE Str("Citizen"))
                      /\ presenceMap[i].v.latitude = resp.req.latitude
                      /\ presenceMap[i].v.longitude = resp.req.longitude
                      /\ presenceMap[i].v.lastSeen = now
    /\ Ok("GET /nearby-users") =>
           \A i, j \in 1..Len(resp.body) : resp.body[i].id = resp.body[j].id => i = j

\* a Report replaced an older record of the same identity that had another
\* name, another latitude and another last-seen time
C9_Witness ==
    /\ Ok("POST /presence")
    /\ \E i \in 1..Len(before.presenceMap) :
           LET old == before.presenceMap[i].v
           IN  /\ old.id = resp.req.id
               /\ old.name # Or(resp.req.name, Str("Guest user"))
               /\ old.latitude # resp.req.latitude
               /\ old.lastSeen < now
               /\ ~Stale(old)
    /\ Len(presenceMap) = 2

\* the radius of a query is a number that is not negative
NonNegativeRadius(r) == IsNumber(r) /\ ~IsNaN(r) /\ (IsFinite(r) => r.n >= 0)

\* C10: a QueryNearby at the coordinates of a record that is not stale, with a
\* non-negative radius, returns that record with distance 0, unless selfId is
\* its identity, and then it does not return it.
C10_ReportedThenFound ==
    LET lat    == parseFloat(resp.req.lat)
        lng    == parseFloat(resp.req.lng)
        radius == parseFloat(Or(resp.req.radiusKm, Str("5")))
    IN  (Ok("GET /nearby-users") /\ NonNegativeRadius(radius)) =>
            \A i \in 1..Len(presenceMap) :
                LET u == presenceMap[i].v
                IN  (u.latitude = lat /\ u.longitude = lng) =>
                        IF resp.req.selfId = u.id
                        THEN \A j \in 1..Len(resp.body) : resp.body[j].id # u.id
                        ELSE \E j \in 1..Len(resp.body) :
                                 /\ resp.body[j].id = u.id
                                 /\ resp.body[j].distanceKm = Num(0)

----------------------------------------------------------------------------
(* Properties of the public message log.                                   *)

IsSuffixOf(a, b) ==
    /\ Len(a) <= Len(b)
    /\ a = SubSeq(b, Len(b) - Len(a) + 1, Len(b))

\* C2: after every request the log holds at most MAX_MESSAGES messages, and
\* they are the last ones posted, in posting order.
C2_LogIsCappedSuffix ==
    /\ Len(messages) <= MAX_MESSAGES
    /\ IsSuffixOf(messages, posted)

\* a Post on a full log dropped its oldest message, and only that one, while
\* the log held messages of two different times
C2_Witness ==
    /\ Ok("POST /messages")
    /\ Len(before.messages) = MAX_MESSAGES
    /\ Len(messages) = MAX_MESSAGES
    /\ messages[1] = before.messages[2]
    /\ messages[MAX_MESSAGES] = resp.body.message
    /\ messages[1].timestamp < messages[MAX_MESSAGES].timestamp

----------------------------------------------------------------------------
(* Properties of the help alerts.                                          *)

IsOpen(a) ==
    /\ a.acceptedById = Null
    /\ a.acceptedByName = Null
    /\ a.acceptedPhone = Null
    /\ a.acceptedAt = Null

IsAccepted(a) == a.acceptedById # Null /\ a.acceptedAt # Null

Expired(a) == now - a.timestamp > HELP_ALERT_TTL_MS

\* the alerts the last request had in hand: those it found, and the one it made
AlertsInHand ==
    IF Ok("POST /help-alerts")
    THEN Append(before.helpAlerts, resp.body.alert)
    ELSE before.helpAlerts

\* how many alerts the last request swept from the front
Swept == Len(AlertsInHand) - Len(helpAlerts)

\* the alert of the registry at position j, as the last request found it
Earlier(j) == AlertsInHand[j + Swept]

\* C3: every alert of the registry is Open or Accepted and never both, a Create
\* makes an Open alert, an Accepted alert stays Accepted, and an Open alert
\* becomes Accepted only by a successful Accept of its identifier.
C3_OpenThenAccepted ==
    /\ \A j \in 1..Len(helpAlerts) :
           /\ IsOpen(helpAlerts[j]) \/ IsAccepted(helpAlerts[j])
           /\ ~(IsOpen(helpAlerts[j]) /\ IsAccepted(helpAlerts[j]))
    /\ Ok("POST /help-alerts") => IsOpen(resp.body.alert)
    /\ Swept >= 0
    /\ \A j \in 1..Len(helpAlerts) :
           /\ helpAlerts[j].id = Earlier(j).id
           /\ IsAccepted(Earlier(j)) => IsAccepted(helpAlerts[j])
           /\ (IsOpen(Earlier(j)) /\ ~IsOpen(helpAlerts[j])) =>
                  /\ Ok("POST /help-alerts/:id/accept")
                  /\ helpAlerts[j].id = resp.req.id

\* an Accept moved an Open alert to Accepted while another alert stayed Open
C3_Witness ==
    /\ Ok("POST /help-alerts/:id/accept")
    /\ \E j \in 1..Len(helpAlerts) : IsOpen(Earlier(j)) /\ IsAccepted(helpAlerts[j])
    /\ \E j \in 1..Len(helpAlerts) : IsOpen(helpAlerts[j])

\* C4: an Accept that names a helper and an alert still in the registry
\* succeeds whatever the state of the alert, and leaves on it the helper
\* identity, name and phone of this call and the time of this call.
C4_AcceptOverwrites ==
    resp.op = "POST /help-alerts/:id/accept" =>
        /\ (/\ Truthy(resp.req.body.helperId)
            /\ \E i \in 1..Len(before.helpAlerts) :
                   /\ before.helpAlerts[i].id = resp.req.id
                   /\ ~Expired(before.helpAlerts[i]))
           => resp.status = 200
        /\ resp.status = 200 =>
               LET i == FindAlert(helpAlerts, resp.req.id)
               IN  /\ i > 0
                   /\ helpAlerts[i].acceptedById = resp.req.body.helperId
                   /\ helpAlerts[i].acceptedByName =
                          (IF Truthy(resp.req.body.helperName)
                           THEN resp.req.body.helperName ELSE Str("Helper"))
                   /\ helpAlerts[i].acceptedPhone =
                          (IF Truthy(resp.req.body.helperPhone)
                           THEN resp.req.body.helperPhone ELSE Null)
                   /\ helpAlerts[i].acceptedAt = Num(now)
                   /\ resp.body.alert = helpAlerts[i]

\* a second Accept, by another helper at a later time, replaced the first
C4_Witness ==
    /\ Ok("POST /help-alerts/:id/accept")
    /\ \E j \in 1..Len(helpAlerts) :
           /\ helpAlerts[j].id = resp.req.id
           /\ IsAccepted(Earlier(j))
           /\ Earlier(j).acceptedById # resp.req.body.helperId
           /\ Earlier(j).acceptedByName # helpAlerts[j].acceptedByName
           /\ Earlier(j).acceptedAt # Num(now)
           /\ helpAlerts[j].acceptedById = resp.req.body.helperId
           /\ helpAlerts[j].acceptedAt = Num(now)

\* C5: a GetById or an Accept naming a helper is answered 404 when every alert
\* with its identifier is older than HELP_ALERT_TTL_MS, accepted or not; no
\* alert older than that is returned by a query, a GetById or an Accept; and an
\* Accept leaves the creation time of the alert as it was.
C5_DestroyedByAgeAlone ==
    /\ (/\ resp.op \in {"GET /help-alerts/:id", "POST /help-alerts/:id/accept"}
        /\ resp.op = "POST /help-alerts/:id/accept" => Truthy(resp.req.body.helperId)
        /\ \A i \in 1..Len(before.helpAlerts) :
               before.helpAlerts[i].id = resp.req.id => Expired(before.helpAlerts[i]))
       => resp.status = 404
    /\ Ok("GET /help-alerts") =>
           \A j \in 1..Len(resp.body) : ~Expired(resp.body[j])
    /\ Ok("GET /help-alerts/:id") => ~Expired(resp.body)
    /\ Ok("POST /help-alerts/:id/accept") => ~Expired(resp.body.alert)
    /\ \A j \in 1..Len(helpAlerts) : helpAlerts[j].timestamp = Earlier(j).timestamp

\* a GetById was answered 404 for an alert that had been accepted and had
\* outlived HELP_ALERT_TTL_MS
C5_Witness ==
    /\ resp.op = "GET /help-alerts/:id"
    /\ resp.status = 404
    /\ \E i \in 1..Len(before.helpAlerts) :
           /\ before.helpAlerts[i].id = resp.req.id
           /\ IsAccepted(before.helpAlerts[i])
           /\ Expired(before.helpAlerts[i])
    /\ helpAlerts = <<>>

----------------------------------------------------------------------------
(* Properties of failed requests.                                          *)

\* C6, as stated: a request answered 400 or 404 leaves all four registries as
\* it found them.
C6_FailureLeavesNoTrace ==
    resp.status \in {400, 404} => Registries = before

\* the alerts left are the last ones of those found
SweptFromFront == IsSuffixOf(helpAlerts, before.helpAlerts)

\* whenever the next sweep of the help alerts runs, it leaves what it would have
\* left had the last request not been made
NextSweepAgrees ==
    \A d \in Steps \cup {0} :
        pruneHelpAlerts(helpAlerts, now + d) = pruneHelpAlerts(before.helpAlerts, now + d)

\* C6, amended: a request answered 400 leaves all four registries as it found
\* them; a request answered 404 leaves the presence records, the messages and
\* the direct messages as it found them, and takes from the help alerts only
\* alerts older than HELP_ALERT_TTL_MS, from the front, which the next sweep
\* would have taken anyway.
C6_FailureOnlySweeps ==
    /\ resp.status = 400 => Registries = before
    /\ resp.status = 404 =>
           /\ presenceMap = before.presenceMap
           /\ messages = before.messages
           /\ directMessages = before.directMessages
           /\ SweptFromFront
           /\ \A i \in 1..(Len(before.helpAlerts) - Len(helpAlerts)) :
                  Expired(before.helpAlerts[i])
           /\ NextSweepAgrees

\* a request answered 404 swept an alert while another registry held an entry
C6_Witness ==
    /\ resp.status = 404
    /\ Len(helpAlerts) < Len(before.helpAlerts)
    /\ Len(presenceMap) + Len(messages) + Len(directMessages) > 0

\* C8: every request ends in success, 400 or 404, whatever its body or query.
C8_OnlyThreeOutcomes ==
    resp.op \notin {"start", "tick"} => resp.status \in {200, 400, 404}

----------------------------------------------------------------------------
(* Properties of the queries.                                              *)

\* the alert a is one that the help-alert query of the last request asks for:
\* not expired, not requested by the identity to exclude, and no farther from
\* the query point than the radius
AskedFor(a) ==
    /\ ~Expired(a)
    /\ ~(Truthy(resp.req.excludeId) /\ a.requestedById = resp.req.excludeId)
    /\ DistLeq(haversineKm(parseFloat(resp.req.lat), parseFloat(resp.req.lng),
                           a.latitude, a.longitude),
               parseFloat(Or(resp.req.radiusKm, Str("5"))))

\* C11: a successful help-alert query returns exactly the alerts of the
\* registry that are not expired, are within the radius of the query point and
\* were not requested by the identity to exclude.
C11_ExactlyTheAlertsAskedFor ==
    Ok("GET /help-alerts") =>
        /\ \A j \in 1..Len(resp.body) :
               /\ AskedFor(resp.body[j])
               /\ \E i \in 1..Len(before.helpAlerts) : before.helpAlerts[i] = resp.body[j]
        /\ \A i \in 1..Len(before.helpAlerts) :
               AskedFor(before.helpAlerts[i]) =>
                   \E j \in 1..Len(resp.body) : resp.body[j] = before.helpAlerts[i]
        /\ Len(resp.body) =
               Cardinality({i \in 1..Len(before.helpAlerts) : AskedFor(before.helpAlerts[i])})

\* a query returned the alert of another requester 100 km away and left out the
\* alert of the identity to exclude, which was at the query point
C11_Witness ==
    /\ Ok("GET /help-alerts")
    /\ Truthy(resp.req.excludeId)
    /\ Len(resp.body) = 1
    /\ resp.body[1].requestedById # resp.req.excludeId
    /\ resp.body[1].latitude # parseFloat(resp.req.lat)
    /\ \E i \in 1..Len(helpAlerts) :
           /\ helpAlerts[i].requestedById = resp.req.excludeId
           /\ helpAlerts[i].latitude = parseFloat(resp.req.lat)

\* C12: a successful public-message query returns its messages oldest first,
\* and a successful help-alert query returns its alerts newest first.
C12_OppositeOrders ==
    /\ Ok("GET /messages") =>
           \A i, j \in 1..Len(resp.body) :
               i < j => resp.body[i].timestamp <= resp.body[j].timestamp
    /\ Ok("GET /help-alerts") =>
           \A i, j \in 1..Len(resp.body) :
               i < j => resp.body[i].timestamp >= resp.body[j].timestamp

\* a help-alert query returned two alerts of different times, the newer one
\* first, from a registry that holds the older one first
C12_Witness ==
    /\ Ok("GET /help-alerts")
    /\ Len(resp.body) = 2
    /\ resp.body[1].timestamp > resp.body[2].timestamp
    /\ helpAlerts = <<resp.body[2], resp.body[1]>>

----------------------------------------------------------------------------
(* Properties of the direct messages.                                      *)

ExpiredDirect(m) == now - m.timestamp > DIRECT_MSG_TTL_MS

\* C13: a listing of the direct messages of an alert returns exactly the
\* messages of the registry that are not expired and were posted to that alert,
\* oldest first.
C13_OnlyThisAlertsMessages ==
    Ok("GET /help-alerts/:id/messages") =>
        /\ \A j \in 1..Len(resp.body) :
               /\ resp.body[j].alertId = resp.req.id
               /\ ~ExpiredDirect(resp.body[j])
               /\ \E i \in 1..Len(before.directMessages) :
                      before.directMessages[i] = resp.body[j]
        /\ \A i \in 1..Len(before.directMessages) :
               (/\ before.directMessages[i].alertId = resp.req.id
                /\ ~ExpiredDirect(before.directMessages[i]))
               => \E j \in 1..Len(resp.body) : resp.body[j] = before.directMessages[i]
        /\ Len(resp.body) =
               Cardinality({i \in 1..Len(before.directMessages) :
                                /\ before.directMessages[i].alertId = resp.req.id
                                /\ ~ExpiredDirect(before.directMessages[i])})
        /\ \A i, j \in 1..Len(resp.body) :
               i < j => resp.body[i].timestamp <= resp.body[j].timestamp

\* a listing returned the message of its alert and not the message of another
\* alert that the registry holds
C13_Witness ==
    /\ Ok("GET /help-alerts/:id/messages")
    /\ Len(resp.body) = 1
    /\ Len(directMessages) = 2
    /\ \E i \in 1..2 : directMessages[i].alertId # resp.req.id

HelpAlertOps ==
    {"POST /help-alerts", "GET /help-alerts", "GET /help-alerts/:id",
     "POST /help-alerts/:id/accept"}

DirectOps == {"GET /help-alerts/:id/messages", "POST /help-alerts/:id/messages"}

\* C14: a posting of a direct message with a sender and a text succeeds and
\* stores the message under the identifier given, whatever alerts the registry
\* holds; a listing always succeeds; and no help-alert request, its sweep
\* included, changes the direct messages.
C14_DirectMessagesStandAlone ==
    /\ (/\ resp.op = "POST /help-alerts/:id/messages"
        /\ Truthy(resp.req.body.fromId)
        /\ Truthy(resp.req.body.text)
        /\ HasSlice(resp.req.body.text))
       => /\ resp.status = 200
          /\ Len(directMessages) > 0
          /\ directMessages[Len(directMessages)] = resp.body.message
          /\ resp.body.message.alertId = resp.req.id
    /\ resp.op = "GET /help-alerts/:id/messages" => resp.status = 200
    /\ resp.op \in HelpAlertOps => directMessages = before.directMessages

\* a listing returned a message of an alert that was created, has since been
\* swept, and that GetById would not find
C14_Witness ==
    /\ Ok("GET /help-alerts/:id/messages")
    /\ Len(resp.body) > 0
    /\ resp.req.id # UnknownId
    /\ FindAlert(pruneHelpAlerts(helpAlerts, now), resp.req.id) = 0

----------------------------------------------------------------------------
(* Properties of the stored texts.                                         *)

\* the text that the last request sent, for the three routes that store one
SentText ==
    IF resp.op = "POST /messages" THEN resp.req.text
    ELSE IF resp.op = "POST /help-alerts" THEN resp.req.message
    ELSE resp.req.body.text

\* the text that the last request stored
StoredText ==
    IF resp.op = "POST /messages" THEN messages[Len(messages)].text
    ELSE IF resp.op = "POST /help-alerts" THEN helpAlerts[Len(helpAlerts)].message
    ELSE directMessages[Len(directMessages)].text

TextOps == {"POST /messages", "POST /help-alerts", "POST /help-alerts/:id/messages"}

\* C15: a posting with a non-empty text of any length succeeds, what it stores
\* is the text itself when that has TEXT_MAX characters or fewer and its first
\* TEXT_MAX characters otherwise, and no stored text is longer than TEXT_MAX.
C15_TextCutAtLimit ==
    /\ (resp.op \in TextOps /\ HasSlice(SentText) /\ Len(SentText.s) > 0) =>
           /\ resp.status = 200
           /\ Len(SentText.s) <= TEXT_MAX => StoredText = SentText
           /\ Len(SentText.s) > TEXT_MAX =>
                  /\ Len(StoredText.s) = TEXT_MAX
                  /\ StoredText.s = SubSeq(SentText.s, 1, TEXT_MAX)
    /\ \A i \in 1..Len(messages) : Len(messages[i].text.s) <= TEXT_MAX
    /\ \A i \in 1..Len(helpAlerts) : Len(helpAlerts[i].message.s) <= TEXT_MAX
    /\ \A i \in 1..Len(directMessages) : Len(directMessages[i].text.s) <= TEXT_MAX

\* a direct message of TEXT_MAX + 1 characters was stored without its last
\* character, while the help alerts hold a text of exactly TEXT_MAX characters
C15_Witness ==
    /\ Ok("POST /help-alerts/:id/messages")
    /\ Len(SentText.s) = TEXT_MAX + 1
    /\ Len(StoredText.s) = TEXT_MAX
    /\ StoredText # SentText
    /\ \E i \in 1..Len(helpAlerts) : Len(helpAlerts[i].message.s) = TEXT_MAX

----------------------------------------------------------------------------
(* Properties of the registries taken together.                            *)

MessageOps == {"POST /messages", "GET /messages"}

\* C16: a presence request leaves the messages, the help alerts and the direct
\* messages as it found them, and likewise a message request, a help-alert
\* request and a direct-message request each leave the other three registries
\* as they found them, whatever their own sweep removes.
C16_OneRegistryPerRequest ==
    /\ resp.op \in PresenceOps =>
           /\ messages = before.messages
           /\ helpAlerts = before.helpAlerts
           /\ directMessages = before.directMessages
    /\ resp.op \in MessageOps =>
           /\ presenceMap = before.presenceMap
           /\ helpAlerts = before.helpAlerts
           /\ directMessages = before.directMessages
    /\ resp.op \in HelpAlertOps =>
           /\ presenceMap = before.presenceMap
           /\ messages = before.messages
           /\ directMessages = before.directMessages
    /\ resp.op \in DirectOps =>
           /\ presenceMap = before.presenceMap
           /\ messages = before.messages
           /\ helpAlerts = before.helpAlerts

\* a help-alert request swept an alert and left in place a direct message that
\* is older than its own age limit
C16_Witness ==
    /\ resp.op \in HelpAlertOps
    /\ Len(helpAlerts) < Len(before.helpAlerts)
    /\ \E i \in 1..Len(directMessages) : ExpiredDirect(directMessages[i])

\* a request answered 200 or 404 has read or written the registry of its route;
\* one answered 400 was turned away at validation, before the first read or
\* write, and a posting of a message or an alert answered 500 threw while it
\* built the entry, before the push
Touches(ops) == resp.op \in ops /\ resp.status \in {200, 404}

\* C17: an advance of the clock changes no registry, so entries older than the
\* age limit stay until a request comes; and after a request that touches a
\* registry, that registry holds no entry older than its age limit.
C17_SweptOnlyOnRequest ==
    /\ resp.op = "tick" => Registries = before
    /\ Touches(PresenceOps) => NoStalePresence
    /\ Touches(MessageOps) =>
           \A i \in 1..Len(messages) : now - messages[i].timestamp <= MESSAGE_TTL_MS
    /\ Touches(HelpAlertOps) =>
           \A i \in 1..Len(helpAlerts) : ~Expired(helpAlerts[i])
    /\ Touches(DirectOps) =>
           \A i \in 1..Len(directMessages) : ~ExpiredDirect(directMessages[i])

\* a message query removed a message that had stayed in the log past its age
\* limit, while the presence registry, not touched, still holds a stale record
C17_Witness ==
    /\ Ok("GET /messages")
    /\ \E i \in 1..Len(before.messages) :
           now - before.messages[i].timestamp > MESSAGE_TTL_MS
    /\ messages = <<>>
    /\ \E i \in 1..Len(presenceMap) : Stale(presenceMap[i].v)

----------------------------------------------------------------------------
(* Properties of the generated identifiers.                                *)

NoSharedId(a) == \A i, j \in 1..Len(a) : a[i].id = a[j].id => i = j

\* entries that share an identifier were created at the same clock value
SharedIdSameTime(a) ==
    \A i, j \in 1..Len(a) : a[i].id = a[j].id => a[i].timestamp = a[j].timestamp

\* the alert that a successful GetById or Accept answered with
Addressed ==
    IF resp.op = "GET /help-alerts/:id" THEN resp.body ELSE resp.body.alert

\* C18, as stated: no two messages, no two alerts and no two direct messages
\* held at the same time share an identifier.
C18_IdsUnique ==
    /\ NoSharedId(messages)
    /\ NoSharedId(helpAlerts)
    /\ NoSharedId(directMessages)

\* C18, amended: two entries of a registry share an identifier only if they
\* were created at the same clock value (and then with the same random draw),
\* and a successful GetById or Accept addresses the first alert of the
\* registry that has the identifier.
C18_IdsUniqueUnlessSameTimeAndDraw ==
    /\ SharedIdSameTime(messages)
    /\ SharedIdSameTime(helpAlerts)
    /\ SharedIdSameTime(directMessages)
    /\ (Ok("GET /help-alerts/:id") \/ Ok("POST /help-alerts/:id/accept")) =>
           \E i \in 1..Len(helpAlerts) :
               /\ helpAlerts[i] = Addressed
               /\ helpAlerts[i].id = resp.req.id
               /\ \A j \in 1..(i - 1) : helpAlerts[j].id # resp.req.id

\* a GetById returned the second of two alerts that were created at the same
\* clock value, after an advance of the clock, with different draws
C18_Witness ==
    /\ Ok("GET /help-alerts/:id")
    /\ Len(helpAlerts) = 2
    /\ helpAlerts[1].timestamp = helpAlerts[2].timestamp
    /\ helpAlerts[1].timestamp > 0
    /\ helpAlerts[1].id # helpAlerts[2].id
    /\ resp.body = helpAlerts[2]

----------------------------------------------------------------------------
(* Properties of the sweeps of the three arrays.                           *)

InTimeOrder(a) ==
    \A i, j \in 1..Len(a) : i < j => a[i].timestamp <= a[j].timestamp

\* the entries of a that are not below the cutoff of the age limit ttl
AtOrAboveCutoff(a, ttl) == SelectSeq(a, LAMBDA e : e.timestamp >= now - ttl)

\* the messages the last request had in hand: those it found, and the one it made
MessagesInHand ==
    IF Ok("POST /messages")
    THEN Append(before.messages, resp.body.message)
    ELSE before.messages

DirectInHand ==
    IF Ok("POST /help-alerts/:id/messages")
    THEN Append(before.directMessages, resp.body.message)
    ELSE before.directMessages

\* the last MAX_MESSAGES entries of a
LastMaxMessages(a) ==
    IF Len(a) <= MAX_MESSAGES THEN a
    ELSE SubSeq(a, Len(a) - MAX_MESSAGES + 1, Len(a))

\* C19: the three arrays are always in non-decreasing order of timestamp, and
\* after a request that sweeps one of them it holds exactly the entries it had
\* in hand that are not below the cutoff: none below it is left and none at or
\* above it is lost (of the messages, the last MAX_MESSAGES of them).
C19_FrontSweepIsExact ==
    /\ InTimeOrder(messages)
    /\ InTimeOrder(helpAlerts)
    /\ InTimeOrder(directMessages)
    /\ Touches(MessageOps) =>
           messages = LastMaxMessages(AtOrAboveCutoff(MessagesInHand, MESSAGE_TTL_MS))
    /\ Touches(HelpAlertOps) =>
           LET kept == AtOrAboveCutoff(AlertsInHand, HELP_ALERT_TTL_MS)
           IN  /\ Len(helpAlerts) = Len(kept)
               /\ \A j \in 1..Len(kept) :
                      /\ helpAlerts[j].id = kept[j].id
                      /\ helpAlerts[j].timestamp = kept[j].timestamp
    /\ Touches(DirectOps) =>
           directMessages = AtOrAboveCutoff(DirectInHand, DIRECT_MSG_TTL_MS)

\* a sweep took the older of two alerts, which was below the cutoff, and kept
\* the newer one, which is exactly at the cutoff
C19_Witness ==
    /\ Touches(HelpAlertOps)
    /\ Len(before.helpAlerts) = 2
    /\ Len(helpAlerts) = 1
    /\ before.helpAlerts[1].timestamp < now - HELP_ALERT_TTL_MS
    /\ helpAlerts[1].timestamp = now - HELP_ALERT_TTL_MS

----------------------------------------------------------------------------
(* Properties of an acceptance.                                            *)

\* what an alert holds apart from its four acceptance fields
CreationFields(a) ==
    [id |-> a.id, type |-> a.type, message |-> a.message,
     latitude |-> a.latitude, longitude |-> a.longitude,
     requestedById |-> a.requestedById, requestedByName |-> a.requestedByName,
     requestedPhone |-> a.requestedPhone, timestamp |-> a.timestamp]

\* C20: after a successful Accept the registry holds the alerts that were not
\* expired, in the order they had; the alert addressed differs from what it
\* was in its four acceptance fields at most, every other alert is as it was,
\* and the acceptance time is not before the creation time.
C20_AcceptChangesFourFields ==
    Ok("POST /help-alerts/:id/accept") =>
        LET i == FindAlert(helpAlerts, resp.req.id)
        IN  /\ i > 0
            /\ Len(helpAlerts) =
                   Cardinality({k \in 1..Len(before.helpAlerts) :
                                    ~Expired(before.helpAlerts[k])})
            /\ \A j \in 1..Len(helpAlerts) :
                   /\ CreationFields(helpAlerts[j]) = CreationFields(Earlier(j))
                   /\ j # i => helpAlerts[j] = Earlier(j)
            /\ helpAlerts[i].acceptedAt.n >= helpAlerts[i].timestamp

\* an Accept, later than the creation, took the second of two alerts and left
\* the first, which another helper had accepted, as it was
C20_Witness ==
    /\ Ok("POST /help-alerts/:id/accept")
    /\ Len(helpAlerts) = 2
    /\ FindAlert(helpAlerts, resp.req.id) = 2
    /\ helpAlerts[2].acceptedAt.n > helpAlerts[2].timestamp
    /\ helpAlerts[2] # before.helpAlerts[2]
    /\ IsAccepted(helpAlerts[1])
    /\ helpAlerts[1].acceptedById # helpAlerts[2].acceptedById

====
